---- MODULE Spec2Model ----
(***************************************************************************)
(* Model of main.py of the Hyperliquid Top-20 Telegram bot: the scraper    *)
(* fetch_hyperdash_top (browser session, strategy chain A..D, ranking),    *)
(* its helpers (usd_to_float, format_amount, guess_side, find_first_addr,  *)
(* walk_json, extract_candidates_from_json, format_top_markdown) and its   *)
(* two callers, cmd_top and periodic_job.                                  *)
(*                                                                         *)
(* Text is a sequence of one-character strings.  A float amount is an      *)
(* exact decimal m * 10^e (TLC's integers are 32 bits wide and "$999B" is  *)
(* not), so "1.5K" is 15 * 10^2; the model's amounts have mantissas of at  *)
(* most nine digits.                                                       *)
(***************************************************************************)
EXTENDS Integers, Sequences, FiniteSets, TLC

\* ------------------------------------------------------------------ text

Digits == {"0", "1", "2", "3", "4", "5", "6", "7", "8", "9"}

LowerLetters ==
  << "a", "b", "c", "d", "e", "f", "g", "h", "i", "j", "k", "l", "m",
     "n", "o", "p", "q", "r", "s", "t", "u", "v", "w", "x", "y", "z" >>

UpperLetters ==
  << "A", "B", "C", "D", "E", "F", "G", "H", "I", "J", "K", "L", "M",
     "N", "O", "P", "Q", "R", "S", "T", "U", "V", "W", "X", "Y", "Z" >>

Range(f) == {f[i] : i \in DOMAIN f}

IsLower(c) == c \in Range(LowerLetters)

IsUpper(c) == c \in Range(UpperLetters)

IndexIn(c, letters) == CHOOSE i \in DOMAIN letters : letters[i] = c

\* str.upper() and str.lower(), one character at a time
UpperChar(c) == IF IsLower(c) THEN UpperLetters[IndexIn(c, LowerLetters)] ELSE c

LowerChar(c) == IF IsUpper(c) THEN LowerLetters[IndexIn(c, UpperLetters)] ELSE c

UpperText(s) == [i \in DOMAIN s |-> UpperChar(s[i])]

LowerText(s) == [i \in DOMAIN s |-> LowerChar(s[i])]

IsSpace(c) == c \in {" ", "\n", "\t"}

\* the regex class \w
IsWordChar(c) == c \in Digits \/ IsLower(c) \/ IsUpper(c) \/ c = "_"

IsHex(c) ==
  c \in Digits \/ c \in {"a", "b", "c", "d", "e", "f", "A", "B", "C", "D", "E", "F"}

DigitVal(c) ==
  CASE c = "0" -> 0 [] c = "1" -> 1 [] c = "2" -> 2 [] c = "3" -> 3
    [] c = "4" -> 4 [] c = "5" -> 5 [] c = "6" -> 6 [] c = "7" -> 7
    [] c = "8" -> 8 [] c = "9" -> 9

DigitChar(d) == <<"0", "1", "2", "3", "4", "5", "6", "7", "8", "9">>[d + 1]

\* str.strip()
Strip(s) ==
  LET keep == {i \in DOMAIN s : ~IsSpace(s[i])}
  IN  IF keep = {} THEN <<>>
      ELSE LET lo == CHOOSE i \in keep : \A j \in keep : i <= j
               hi == CHOOSE i \in keep : \A j \in keep : j <= i
           IN  SubSeq(s, lo, hi)

\* str.replace(c, "") for a single character c
RemoveChar(s, c) == SelectSeq(s, LAMBDA x : x # c)

\* "needle in hay" for texts
Contains(hay, needle) ==
  \E i \in 1..(Len(hay) - Len(needle) + 1) :
    SubSeq(hay, i, i + Len(needle) - 1) = needle

\* str.replace(needle, ""): the non-overlapping occurrences, left to right
RECURSIVE RemoveAll(_, _)
RemoveAll(s, needle) ==
  IF Len(s) < Len(needle) \/ needle = <<>> THEN s
  ELSE IF SubSeq(s, 1, Len(needle)) = needle
       THEN RemoveAll(SubSeq(s, Len(needle) + 1, Len(s)), needle)
       ELSE <<s[1]>> \o RemoveAll(Tail(s), needle)

IsDigit(c) == c \in Digits

\* the end of the maximal run of digits (\d+) that starts at i
RECURSIVE DigitRunEnd(_, _)
DigitRunEnd(s, i) ==
  IF i < Len(s) /\ IsDigit(s[i + 1]) THEN DigitRunEnd(s, i + 1) ELSE i

\* the end of the maximal run of hex digits that starts at i
RECURSIVE HexRunEnd(_, _)
HexRunEnd(s, i) ==
  IF i < Len(s) /\ IsHex(s[i + 1]) THEN HexRunEnd(s, i + 1) ELSE i

\* int(...) of a run of digits
RECURSIVE DigitsValue(_)
DigitsValue(ds) ==
  IF ds = <<>> THEN 0
  ELSE DigitsValue(SubSeq(ds, 1, Len(ds) - 1)) * 10 + DigitVal(ds[Len(ds)])

\* the decimal digits of a natural number
RECURSIVE NatText(_)
NatText(n) ==
  IF n < 10 THEN <<DigitChar(n)>> ELSE NatText(n \div 10) \o <<DigitChar(n % 10)>>

\* --------------------------------------------------------------- amounts

\* A float amount is the decimal m * 10^e, kept normal (m carries no
\* trailing zero, zero is 0 * 10^0), so that equal amounts are equal records.
Pow10(k) ==
  <<1, 10, 100, 1000, 10000, 100000, 1000000, 10000000, 100000000, 1000000000>>[k + 1]

RECURSIVE Dec(_, _)
Dec(m, e) ==
  IF m = 0 THEN [m |-> 0, e |-> 0]
  ELSE IF m % 10 = 0 THEN Dec(m \div 10, e + 1)
  ELSE [m |-> m, e |-> e]

\* float(n) of an int
DecOfInt(n) == Dec(n, 0)

Abs(n) == IF n < 0 THEN 0 - n ELSE n

DecAbs(a) == [m |-> Abs(a.m), e |-> a.e]

DecMul(a, b) == Dec(a.m * b.m, a.e + b.e)

\* a < b for amounts a, b >= 0
DecLess(a, b) ==
  IF a.m = 0 \/ b.m = 0 THEN a.m = 0 /\ b.m # 0
  ELSE IF a.e >= b.e
  THEN \* a.m * 10^d < b.m  with d = a.e - b.e
       LET d == a.e - b.e
       IN  IF d > 9 THEN FALSE ELSE a.m < b.m \div Pow10(d) \/
             (a.m = b.m \div Pow10(d) /\ b.m % Pow10(d) # 0)
  ELSE \* a.m < b.m * 10^d  with d = b.e - a.e
       LET d == b.e - a.e
       IN  IF d > 9 THEN TRUE ELSE a.m \div Pow10(d) < b.m

\* ----------------------------------------------------------- usd_to_float

MULTS(c) ==
  CASE c = "K" -> 1000 [] c = "M" -> 1000000 [] c = "B" -> 1000000000

\* re.search(r"([KMB])\b", txt): the first K, M or B that ends a word
SuffixAt(txt) ==
  LET hits == {i \in DOMAIN txt :
                 /\ txt[i] \in {"K", "M", "B"}
                 /\ (i = Len(txt) \/ ~IsWordChar(txt[i + 1]))}
  IN  IF hits = {} THEN 0 ELSE CHOOSE i \in hits : \A j \in hits : i <= j

\* re.search(r"-?\$?\s*(\d+(\.\d+)?)", txt).group(1) as a float: the
\* leftmost match always captures the run of digits that starts at the
\* first digit of the text, with one ".digits" fraction when it follows
NumberAt(txt) ==
  LET ds == {i \in DOMAIN txt : IsDigit(txt[i])}
  IN  IF ds = {} THEN [found |-> FALSE, val |-> Dec(0, 0)]
      ELSE LET d0   == CHOOSE i \in ds : \A j \in ds : i <= j
               e    == DigitRunEnd(txt, d0)
               frac == IF e + 2 <= Len(txt) /\ txt[e + 1] = "." /\ IsDigit(txt[e + 2])
                       THEN SubSeq(txt, e + 2, DigitRunEnd(txt, e + 2))
                       ELSE <<>>
           IN  [found |-> TRUE,
                val   |-> Dec(DigitsValue(SubSeq(txt, d0, e) \o frac), 0 - Len(frac))]

usd_to_float(s) ==
  IF s = <<>> THEN Dec(0, 0)
  ELSE LET txt  == RemoveChar(UpperText(Strip(s)), ",")
           m    == SuffixAt(txt)
           mult == IF m # 0 THEN MULTS(txt[m]) ELSE 1
           n    == NumberAt(txt)
       IN  IF ~n.found THEN Dec(0, 0) ELSE DecMul(n.val, DecOfInt(mult))

\* ---------------------------------------------------------- format_amount

\* round(num / den) to the nearest integer, ties to even
RoundDiv(num, den) ==
  LET q == num \div den
      r == num % den
  IN  IF 2 * r < den THEN q
      ELSE IF 2 * r > den THEN q + 1
      ELSE IF q % 2 = 0 THEN q ELSE q + 1

\* round(a * 10^k) for an amount a >= 0
Scaled(a, k) ==
  LET x == a.e + k
  IN  IF x >= 0 THEN a.m * Pow10(x)
      ELSE IF 0 - x > 9 THEN 0
      ELSE RoundDiv(a.m, Pow10(0 - x))

\* f"{x:.2f}" of x = h / 100
TwoDecimals(h) ==
  NatText(h \div 100) \o <<".", DigitChar((h % 100) \div 10), DigitChar(h % 10)>>

\* f"{x:,}" of a natural number
RECURSIVE Grouped(_)
Grouped(n) ==
  IF n < 1000 THEN NatText(n)
  ELSE LET low == n % 1000
       IN  Grouped(n \div 1000)
             \o <<",", DigitChar(low \div 100), DigitChar((low % 100) \div 10),
                  DigitChar(low % 10)>>

format_amount(n) ==
  LET sign == IF n.m < 0 THEN <<"-">> ELSE <<>>
      a    == DecAbs(n)
  IN  IF ~DecLess(a, DecOfInt(1000000000))
      THEN sign \o <<"$">> \o TwoDecimals(Scaled(a, 2 - 9)) \o <<"B">>
      ELSE IF ~DecLess(a, DecOfInt(1000000))
      THEN sign \o <<"$">> \o TwoDecimals(Scaled(a, 2 - 6)) \o <<"M">>
      ELSE IF ~DecLess(a, DecOfInt(1000))
      THEN sign \o <<"$">> \o TwoDecimals(Scaled(a, 2 - 3)) \o <<"K">>
      ELSE sign \o <<"$">> \o Grouped(Scaled(a, 0))

\* ------------------------------------------------ guess_side, find_first_addr

\* " ".join(t.lower() for t in texts if t)
RECURSIVE JoinLower(_)
JoinLower(texts) ==
  IF texts = <<>> THEN <<>>
  ELSE LET rest == JoinLower(Tail(texts))
           nonempty == SelectSeq(Tail(texts), LAMBDA t : t # <<>>)
       IN  IF Head(texts) = <<>> THEN rest
           ELSE IF nonempty = <<>> THEN LowerText(Head(texts))
           ELSE LowerText(Head(texts)) \o <<" ">> \o rest

guess_side(texts) ==
  LET joined == JoinLower(texts)
  IN  IF Contains(joined, <<"s", "h", "o", "r", "t">>) THEN <<"s", "h", "o", "r", "t">>
      ELSE IF Contains(joined, <<"l", "o", "n", "g">>) THEN <<"l", "o", "n", "g">>
      ELSE <<"-">>

\* re.search(r"0x[a-fA-F0-9]{6,}", t): leftmost match, greedy; <<>> for None
AddrIn(t) ==
  LET starts == {i \in 1..(Len(t) - 7) :
                   /\ t[i] = "0" /\ t[i + 1] = "x"
                   /\ \A k \in 2..7 : IsHex(t[i + k])}
  IN  IF starts = {} THEN <<>>
      ELSE LET i == CHOOSE x \in starts : \A y \in starts : x <= y
           IN  SubSeq(t, i, HexRunEnd(t, i + 7))

RECURSIVE find_first_addr(_)
find_first_addr(texts) ==
  IF texts = <<>> THEN <<>>
  ELSE IF Head(texts) # <<>> /\ AddrIn(Head(texts)) # <<>> THEN AddrIn(Head(texts))
  ELSE find_first_addr(Tail(texts))

\* ------------------------------------------------------------------ JSON

\* The values json.loads returns: None, bool, int/float, str, list, dict.
\* A dict is the sequence of its items in insertion order.
JNull == [t |-> "null"]

JBool(b) == [t |-> "bool", b |-> b]

JNum(d) == [t |-> "num", v |-> d]

JStr(s) == [t |-> "str", s |-> s]

JList(xs) == [t |-> "list", xs |-> xs]

JDict(kv) == [t |-> "dict", kv |-> kv]

Item(k, v) == [k |-> k, v |-> v]

\* k in obj
HasKey(obj, k) == \E i \in DOMAIN obj.kv : obj.kv[i].k = k

\* obj.get(k)
Get(obj, k) ==
  IF HasKey(obj, k)
  THEN obj.kv[CHOOSE i \in DOMAIN obj.kv : obj.kv[i].k = k].v
  ELSE JNull

\* bool(v)
Truthy(v) ==
  CASE v.t = "null" -> FALSE
    [] v.t = "bool" -> v.b
    [] v.t = "num"  -> v.v.m # 0
    [] v.t = "str"  -> v.s # <<>>
    [] v.t = "list" -> v.xs # <<>>
    [] v.t = "dict" -> v.kv # <<>>

\* a or b or ... or default: the first truthy value
RECURSIVE FirstTruthy(_, _)
FirstTruthy(vs, default) ==
  IF vs = <<>> THEN default
  ELSE IF Truthy(Head(vs)) THEN Head(vs)
  ELSE FirstTruthy(Tail(vs), default)

\* str(v) for the values that reach it; a container prints as its brackets
Str(v) ==
  CASE v.t = "str"  -> v.s
    [] v.t = "num"  -> (IF v.v.m < 0 THEN <<"-">> ELSE <<>>)
                         \o NatText(Abs(v.v.m)) \o <<"e">>
                         \o (IF v.v.e < 0 THEN <<"-">> ELSE <<>>) \o NatText(Abs(v.v.e))
    [] v.t = "bool" -> IF v.b THEN <<"T", "r", "u", "e">> ELSE <<"F", "a", "l", "s", "e">>
    [] v.t = "null" -> <<"N", "o", "n", "e">>
    [] v.t = "list" -> <<"[", "]">>
    [] v.t = "dict" -> <<"{", "}">>

RECURSIVE walk_json(_)
RECURSIVE WalkAll(_)
\* the dicts of a JSON value, each before the dicts inside it
walk_json(node) ==
  IF node.t = "dict"
  THEN <<node>> \o WalkAll([i \in DOMAIN node.kv |-> node.kv[i].v])
  ELSE IF node.t = "list" THEN WalkAll(node.xs)
  ELSE <<>>

WalkAll(nodes) ==
  IF nodes = <<>> THEN <<>> ELSE walk_json(Head(nodes)) \o WalkAll(Tail(nodes))

\* ----------------------------------------------- extract_candidates_from_json

usd_fields ==
  << "mainPosition", "main_position", "positionUsd", "mainUsd", "usd",
     "notionalUsd", "pv", "sizeUsd", "valueUsd" >>

text_fields ==
  << "mainPositionText", "main_position_text", "positionUsdText",
     "sizeUsdText", "pvText", "valueText" >>

TopRow(rank, symbol, side, size_usd_text, size_usd_num, owner, address) ==
  [rank |-> rank, symbol |-> symbol, side |-> side,
   size_usd_text |-> size_usd_text, size_usd_num |-> size_usd_num,
   owner |-> owner, address |-> address]

Dash == <<"-">>

\* the first usd field that is an int, float or str (a bool is an int)
UsdHit(obj) ==
  LET hits == {i \in DOMAIN usd_fields :
                 /\ HasKey(obj, usd_fields[i])
                 /\ Get(obj, usd_fields[i]).t \in {"num", "bool", "str"}}
  IN  IF hits = {} THEN 0 ELSE CHOOSE i \in hits : \A j \in hits : i <= j

\* the first text field that is a str with a "$" in it
TextHit(obj) ==
  LET hits == {i \in DOMAIN text_fields :
                 /\ HasKey(obj, text_fields[i])
                 /\ Get(obj, text_fields[i]).t = "str"
                 /\ Contains(Get(obj, text_fields[i]).s, <<"$">>)}
  IN  IF hits = {} THEN 0 ELSE CHOOSE i \in hits : \A j \in hits : i <= j

\* size_val and size_txt of one dict; found = FALSE is size_val None
SizeOf(obj) ==
  LET u == UsdHit(obj)
      x == TextHit(obj)
  IN  IF u # 0
      THEN LET v == Get(obj, usd_fields[u])
           IN  IF v.t = "str"
               THEN [found |-> TRUE, val |-> usd_to_float(v.s), txt |-> v.s]
               ELSE LET f == IF v.t = "bool"
                             THEN DecOfInt(IF v.b THEN 1 ELSE 0) ELSE v.v
                    IN  [found |-> TRUE, val |-> f, txt |-> format_amount(f)]
      ELSE IF x # 0
      THEN LET v == Get(obj, text_fields[x])
           IN  [found |-> TRUE, val |-> usd_to_float(v.s), txt |-> v.s]
      ELSE [found |-> FALSE, val |-> Dec(0, 0), txt |-> <<>>]

\* re.match(r"^0x[a-fA-F0-9]{6,}", t)
StartsWithAddr(t) ==
  /\ Len(t) >= 8 /\ t[1] = "0" /\ t[2] = "x"
  /\ \A k \in 3..8 : IsHex(t[k])

\* the row of one dict whose size is neither None nor 0
RowOf(obj, size) ==
  LET sym0   == FirstTruthy(<<Get(obj, "symbol"), Get(obj, "asset"), Get(obj, "pair")>>,
                            JStr(Dash))
      symbol == IF sym0.t = "dict"
                THEN FirstTruthy(<<Get(sym0, "name"), Get(sym0, "symbol")>>, JStr(Dash))
                ELSE sym0
      side0  == FirstTruthy(<<Get(obj, "side"), Get(obj, "positionSide")>>, JStr(Dash))
      side   == IF side0.t = "dict"
                THEN FirstTruthy(<<Get(side0, "name")>>, JStr(Dash))
                ELSE side0
      owner  == FirstTruthy(<<Get(obj, "owner"), Get(obj, "name")>>, JStr(<<>>))
      addr0  == FirstTruthy(<<Get(obj, "address"), Get(obj, "wallet"), Get(obj, "trader")>>,
                            JStr(<<>>))
      addr1  == IF addr0.t = "dict"
                THEN FirstTruthy(<<Get(addr0, "address"), Get(addr0, "id")>>, JStr(<<>>))
                ELSE addr0
      addr   == IF Truthy(addr1) /\ ~StartsWithAddr(Str(addr1))
                     /\ AddrIn(Str(addr1)) # <<>>
                THEN JStr(AddrIn(Str(addr1)))
                ELSE addr1
  IN  TopRow(0,
             IF Truthy(symbol) THEN Str(symbol) ELSE Dash,
             IF Truthy(side) THEN Str(side) ELSE Dash,
             IF size.txt # <<>> THEN size.txt ELSE format_amount(size.val),
             size.val,
             IF Truthy(owner) THEN Str(owner) ELSE <<>>,
             IF Truthy(addr) THEN Str(addr) ELSE <<>>)

RECURSIVE RowsOfDicts(_)
RowsOfDicts(objs) ==
  IF objs = <<>> THEN <<>>
  ELSE LET size == SizeOf(Head(objs))
       IN  (IF ~size.found \/ size.val.m = 0 THEN <<>>
            ELSE <<RowOf(Head(objs), size)>>)
             \o RowsOfDicts(Tail(objs))

\* the extraction without its "size_val == 0: continue"
RECURSIVE RowsOfDictsKeepZero(_)
RowsOfDictsKeepZero(objs) ==
  IF objs = <<>> THEN <<>>
  ELSE LET size == SizeOf(Head(objs))
       IN  (IF ~size.found THEN <<>> ELSE <<RowOf(Head(objs), size)>>)
             \o RowsOfDictsKeepZero(Tail(objs))

extract_keep_zero(j) == RowsOfDictsKeepZero(walk_json(j))

extract_candidates_from_json(j) == RowsOfDicts(walk_json(j))

\* ------------------------------------------------------- ranking (sort, rank)

\* the slice bound of rows[:20]
Limit == 20

Min(a, b) == IF a < b THEN a ELSE b

Max(a, b) == IF a < b THEN b ELSE a

\* the sort key abs(r.size_usd_num)
SortKey(r) == DecAbs(r.size_usd_num)

\* r goes before the first row with a strictly smaller key: list.sort is
\* stable, and reverse=True keeps the order of equal keys
RECURSIVE InsertDesc(_, _)
InsertDesc(sorted, r) ==
  IF sorted = <<>> THEN <<r>>
  ELSE IF DecLess(SortKey(Head(sorted)), SortKey(r)) THEN <<r>> \o sorted
  ELSE <<Head(sorted)>> \o InsertDesc(Tail(sorted), r)

RECURSIVE SortFrom(_, _)
SortFrom(sorted, rest) ==
  IF rest = <<>> THEN sorted
  ELSE SortFrom(InsertDesc(sorted, Head(rest)), Tail(rest))

\* a < b for amounts of either sign
DecLessSigned(a, b) ==
  IF a.m < 0
  THEN b.m >= 0 \/ DecLess(DecAbs(b), DecAbs(a))
  ELSE b.m >= 0 /\ DecLess(a, b)

RECURSIVE InsertDescSigned(_, _)
InsertDescSigned(sorted, r) ==
  IF sorted = <<>> THEN <<r>>
  ELSE IF DecLessSigned(Head(sorted).size_usd_num, r.size_usd_num) THEN <<r>> \o sorted
  ELSE <<Head(sorted)>> \o InsertDescSigned(Tail(sorted), r)

RECURSIVE SortFromSigned(_, _)
SortFromSigned(sorted, rest) ==
  IF rest = <<>> THEN sorted
  ELSE SortFromSigned(InsertDescSigned(sorted, Head(rest)), Tail(rest))

\* the sort with the key r.size_usd_num, its abs() forgotten
sort_rows_signed(rows) == SortFromSigned(<<>>, rows)

\* r goes before the first row whose key is not larger: rows of equal keys
\* end in the reverse of the order they were found in
RECURSIVE InsertDescTiesFirst(_, _)
InsertDescTiesFirst(sorted, r) ==
  IF sorted = <<>> THEN <<r>>
  ELSE IF ~DecLess(SortKey(r), SortKey(Head(sorted))) THEN <<r>> \o sorted
  ELSE <<Head(sorted)>> \o InsertDescTiesFirst(Tail(sorted), r)

RECURSIVE SortFromTiesFirst(_, _)
SortFromTiesFirst(sorted, rest) ==
  IF rest = <<>> THEN sorted
  ELSE SortFromTiesFirst(InsertDescTiesFirst(sorted, Head(rest)), Tail(rest))

\* a sort by the same key that is not stable
sort_rows_unstable(rows) == SortFromTiesFirst(<<>>, rows)

\* rows.sort(key=lambda r: abs(r.size_usd_num), reverse=True)
sort_rows(rows) == SortFrom(<<>>, rows)

\* for i, r in enumerate(rows[:20], start=1): r.rank = i ; return rows[:20]
rank_top(rows) ==
  [i \in 1..Min(Limit, Len(rows)) |-> [rows[i] EXCEPT !.rank = i]]

\* the slice taken before the sort instead of after it
RankedSliceFirst(rows) == rank_top(sort_rows(SubSeq(rows, 1, Min(Limit, Len(rows)))))

\* the rows without those whose address an earlier row already carries
RECURSIVE DedupeByAddress(_, _)
DedupeByAddress(seen, rest) ==
  IF rest = <<>> THEN <<>>
  ELSE IF Head(rest).address # <<>> /\ Head(rest).address \in seen
  THEN DedupeByAddress(seen, Tail(rest))
  ELSE <<Head(rest)>> \o DedupeByAddress(seen \cup {Head(rest).address}, Tail(rest))

\* a return that keeps one row per address
RankedDedupe(rows) == rank_top(DedupeByAddress({}, sort_rows(rows)))

\* the value a strategy returns for its rows
Ranked(rows) == rank_top(sort_rows(rows))

\* ----------------------------------------------------- C) DOM table rows

\* "$" in t and re.search(r"\$\s*\d", t)
DollarDigit(t) ==
  \E i \in DOMAIN t :
    /\ t[i] = "$"
    /\ \E j \in (i + 1)..Len(t) :
         /\ IsDigit(t[j])
         /\ \A k \in (i + 1)..(j - 1) : IsSpace(t[k])

\* the least element of a non-empty set of indices
Least(S) == CHOOSE i \in S : \A j \in S : i <= j

\* re.fullmatch(r"[A-Z0-9:\-\.]{2,12}", t.replace("PERP","").replace(" ",""))
TickerLike(t) ==
  LET u == RemoveChar(RemoveAll(t, <<"P", "E", "R", "P">>), " ")
  IN  /\ Len(u) >= 2 /\ Len(u) <= 12
      /\ \A i \in DOMAIN u : IsUpper(u[i]) \/ IsDigit(u[i]) \/ u[i] \in {":", "-", "."}

\* the row of one <tr>, given the stripped texts of its <td> cells;
\* <<>> when the row is skipped
TableRow(texts) ==
  IF texts = <<>> THEN <<>>
  ELSE LET dollars  == {i \in DOMAIN texts : DollarDigit(texts[i])}
           tickers  == {i \in DOMAIN texts : TickerLike(texts[i])}
           size_txt == IF dollars = {} THEN <<>> ELSE texts[Least(dollars)]
           size_num == usd_to_float(size_txt)
           sym0     == IF tickers = {} THEN Dash ELSE texts[Least(tickers)]
           symbol   == IF sym0 = Dash THEN texts[1] ELSE sym0
       IN  IF size_num.m = 0 THEN <<>>
           ELSE << TopRow(0, symbol, guess_side(texts),
                          IF size_txt # <<>> THEN size_txt ELSE format_amount(size_num),
                          size_num, <<>>, find_first_addr(texts)) >>

RECURSIVE TableRows(_)
TableRows(trs) ==
  IF trs = <<>> THEN <<>>
  ELSE TableRow([k \in DOMAIN Head(trs) |-> Strip(Head(trs)[k])]) \o TableRows(Tail(trs))

\* ------------------------------------------------- D) lines of body.innerText

\* re.search(r"\b[A-Z]{2,10}\b", ln): the first word (maximal run of \w)
\* made of 2 to 10 capital letters
SymbolIn(ln) ==
  LET starts == {i \in DOMAIN ln :
                   /\ IsWordChar(ln[i])
                   /\ (i = 1 \/ ~IsWordChar(ln[i - 1]))
                   /\ \E j \in i..Len(ln) :
                        /\ j - i + 1 >= 2 /\ j - i + 1 <= 10
                        /\ \A k \in i..j : IsUpper(ln[k])
                        /\ (j = Len(ln) \/ ~IsWordChar(ln[j + 1]))}
  IN  IF starts = {} THEN Dash
      ELSE LET i == CHOOSE x \in starts : \A y \in starts : x <= y
               j == CHOOSE y \in i..Len(ln) :
                      /\ \A k \in i..y : IsUpper(ln[k])
                      /\ (y = Len(ln) \/ ~IsWordChar(ln[y + 1]))
           IN  SubSeq(ln, i, j)

\* the row of one stripped line that holds a "$"; <<>> when it is skipped
TextRow(ln) ==
  LET size_num == usd_to_float(ln)
  IN  IF size_num.m = 0 THEN <<>>
      ELSE << TopRow(0, SymbolIn(ln), guess_side(<<ln>>), ln, size_num,
                     <<>>, find_first_addr(<<ln>>)) >>

RECURSIVE TextRows(_)
TextRows(lines) ==
  IF lines = <<>> THEN <<>>
  ELSE (IF Contains(Head(lines), <<"$">>) THEN TextRow(Strip(Head(lines))) ELSE <<>>)
         \o TextRows(Tail(lines))

\* ------------------------------------------------------- format_top_markdown

\* who = r.owner or r.address or "-"
Who(r) == IF r.owner # <<>> THEN r.owner ELSE IF r.address # <<>> THEN r.address ELSE Dash

\* the message: the no-data notice for an empty list, else one table line
\* (rank | side | size | symbol | who) per row under the fixed header
format_top_markdown(rows) ==
  IF rows = <<>> THEN [kind |-> "nodata", lines |-> <<>>]
  ELSE [kind  |-> "top",
        lines |-> [i \in DOMAIN rows |->
                     <<rows[i].rank, rows[i].side, rows[i].size_usd_text,
                       rows[i].symbol, Who(rows[i])>>]]

\* ------------------------------------------------------- the page (environment)

\* What the site serves to one browser session.  A script text or response
\* body is valid JSON text (RawJson), text that starts like JSON but does
\* not parse (RawBroken), or text that is not JSON at all (RawText).
RawJson(doc) == [k |-> "json", doc |-> doc]

RawBroken == [k |-> "broken", doc |-> JNull]

RawText == [k |-> "text", doc |-> JNull]

\* raw.strip().startswith("{") or raw.strip().startswith("[")
StartsLikeJson(raw) ==
  raw.k = "broken" \/ (raw.k = "json" /\ raw.doc.t \in {"dict", "list"})

\* json.loads(raw) raises
LoadsRaises(raw) == raw.k # "json"

\* a network response: its content type or url says JSON, and its body
Response(json_like, raw) == [json_like |-> json_like, raw |-> raw]

\* "\t".join(cells): the innerText of a table row
RECURSIVE JoinTab(_)
JoinTab(cells) ==
  IF cells = <<>> THEN <<>>
  ELSE IF Len(cells) = 1 THEN Head(cells)
  ELSE Head(cells) \o <<"\t">> \o JoinTab(Tail(cells))

\* the rows page.locator("table >> tbody >> tr") matches, or, when it
\* matches none, those of page.locator("table tr")
TableTrs(p) == IF Len(p.tbody) # 0 THEN p.tbody ELSE p.thead

\* document.body.innerText.splitlines(): the free lines, then the table's
BodyLines(p) ==
  p.lines \o [i \in DOMAIN p.thead |-> JoinTab(p.thead[i])]
          \o [i \in DOMAIN p.tbody |-> JoinTab(p.tbody[i])]

\* --------------------------------------------- the strategies' computations

\* what a strategy's try block comes to: it raised, or the rows it found
Found(rows) == [raised |-> FALSE, rows |-> rows]

Raised == [raised |-> TRUE, rows |-> <<>>]

\* A) script#__NEXT_DATA__: count, inner_text, json.loads, extract
NextDataRows(p) ==
  IF p.next = <<>> THEN Found(<<>>)
  ELSE IF LoadsRaises(p.next[1]) THEN Raised
  ELSE Found(extract_candidates_from_json(p.next[1].doc))

\* range(min(sc, 12))
ScriptLimit == 12

\* A) script[type='application/json']: the first script with rows wins
RECURSIVE ScanScripts(_)
ScanScripts(scripts) ==
  IF scripts = <<>> THEN Found(<<>>)
  ELSE IF ~StartsLikeJson(Head(scripts)) THEN ScanScripts(Tail(scripts))
  ELSE IF LoadsRaises(Head(scripts)) THEN Raised
  ELSE LET rows == extract_candidates_from_json(Head(scripts).doc)
       IN  IF rows # <<>> THEN Found(rows) ELSE ScanScripts(Tail(scripts))

JsonScriptRows(p) == ScanScripts(SubSeq(p.scripts, 1, Min(Len(p.scripts), ScriptLimit)))

\* B) combined.extend(extract_candidates_from_json(blob["data"])) per blob
RECURSIVE XhrRows(_)
XhrRows(blobs) ==
  IF blobs = <<>> THEN <<>>
  ELSE extract_candidates_from_json(Head(blobs)) \o XhrRows(Tail(blobs))

\* ------------------------------------------------------------------ state

Callers == {"cmd_top", "periodic_job"}

VARIABLES
  page,           \* per caller: what the site serves to its browser session
  mayStart,       \* the callers whose request arrives in this behaviour
  pc,             \* per caller: where its handler and fetch_hyperdash_top are
  pw,             \* per caller: the Playwright driver of its "async with"
  browser,        \* per caller: the browser it launched
  ctx,            \* per caller: the browser context (and page) it opened
  delivered,      \* per caller: how many of the page's responses have fired
  captured_json,  \* per caller: the data on_response has appended
  rows,           \* per caller: the local rows (found rows, or C/D rows)
  closing,        \* per caller: the strategy whose close/return is under way
  ret,            \* per caller: the list fetch_hyperdash_top returned
  exc,            \* per caller: the exception leaving fetch_hyperdash_top
  reply,          \* per caller: the message the handler sent
  logged,         \* per caller: the exception the handler logged
  trace,          \* per caller: the strategies run so far, with their rows
  sinceSuccess,   \* "never", "fresh" or "stale": the last successful fetch
  faults,         \* how many infrastructure faults have struck so far
  arrival         \* per caller: what sinceSuccess was when its request came

vars ==
  << page, mayStart, pc, pw, browser, ctx, delivered, captured_json, rows,
     closing, ret, exc, reply, logged, trace, sinceSuccess, faults, arrival >>

\* the order of the strategy blocks in fetch_hyperdash_top
Order == <<"next_data", "json_scripts", "xhr", "table", "text">>

NoReply == [kind |-> "none", lines |-> <<>>]

\* page operations work while the context and its browser are open
PageAlive(c) == ctx[c] = "open" /\ browser[c] = "open"

Ran(c, name, res) ==
  trace' = [trace EXCEPT ![c] = Append(@, [s |-> name, raised |-> res.raised,
                                             rows |-> res.rows])]

\* the most infrastructure faults (a Playwright call that raises although
\* its page is alive) in one behaviour
MaxFaults == 1

\* a Playwright call returns (ok) or raises; a raise that the closed page
\* forces is no fault of the infrastructure
Call(ok, forced) ==
  /\ ok \/ forced \/ faults < MaxFaults
  /\ faults' = IF ok \/ forced THEN faults ELSE faults + 1

\* an exception leaves the body of the "async with"
Throw(c, stage) ==
  /\ exc' = [exc EXCEPT ![c] = stage]
  /\ pc' = [pc EXCEPT ![c] = "exit"]

\* ---------------------------------------------------------------- callers

\* /top or /top20 arrives: rows = await fetch_hyperdash_top()
cmd_top(c) ==
  /\ c = "cmd_top" /\ c \in mayStart /\ pc[c] = "idle"
  /\ pc' = [pc EXCEPT ![c] = "install"]
  /\ arrival' = [arrival EXCEPT ![c] = sinceSuccess]
  /\ UNCHANGED << page, mayStart, pw, browser, ctx, delivered, captured_json,
                  rows, closing, ret, exc, reply, logged, trace, sinceSuccess,
                  faults >>

\* the job queue fires: rows = await fetch_hyperdash_top()
periodic_job(c) ==
  /\ c = "periodic_job" /\ c \in mayStart /\ pc[c] = "idle"
  /\ pc' = [pc EXCEPT ![c] = "install"]
  /\ arrival' = [arrival EXCEPT ![c] = sinceSuccess]
  /\ UNCHANGED << page, mayStart, pw, browser, ctx, delivered, captured_json,
                  rows, closing, ret, exc, reply, logged, trace, sinceSuccess,
                  faults >>

\* -------------------------------------------------- fetch_hyperdash_top

\* await ensure_chromium_installed(): returns, or raises RuntimeError
\* before any browser exists
ensure_chromium_installed(c) ==
  /\ pc[c] = "install"
  /\ \E ok \in BOOLEAN :
       /\ Call(ok, FALSE)
       /\ IF ok
          THEN /\ pc' = [pc EXCEPT ![c] = "launch"]
               /\ exc' = exc
          ELSE /\ pc' = [pc EXCEPT ![c] = "raised"]
               /\ exc' = [exc EXCEPT ![c] = "install"]
  /\ UNCHANGED << page, mayStart, pw, browser, ctx, delivered, captured_json,
                  rows, closing, ret, reply, logged, trace, sinceSuccess,
                  arrival >>

\* async with async_playwright() as pw: browser = await pw.chromium.launch()
launch(c) ==
  /\ pc[c] = "launch"
  /\ pw' = [pw EXCEPT ![c] = "running"]
  /\ \E ok \in BOOLEAN :
       /\ Call(ok, FALSE)
       /\ IF ok
          THEN /\ browser' = [browser EXCEPT ![c] = "open"]
               /\ pc' = [pc EXCEPT ![c] = "new_context"]
               /\ exc' = exc
          ELSE /\ browser' = browser
               /\ Throw(c, "launch")
  /\ UNCHANGED << page, mayStart, ctx, delivered, captured_json, rows, closing,
                  ret, reply, logged, trace, sinceSuccess,
                  arrival >>

\* ctx = await browser.new_context(); add_init_script; page = new_page();
\* captured_json = []; page.on("response", on_response)
new_context(c) ==
  /\ pc[c] = "new_context"
  /\ \E ok \in BOOLEAN :
       /\ Call(ok, FALSE)
       /\ IF ok
          THEN /\ ctx' = [ctx EXCEPT ![c] = "open"]
               /\ pc' = [pc EXCEPT ![c] = "goto"]
               /\ exc' = exc
          ELSE /\ ctx' = ctx
               /\ Throw(c, "context")
  /\ captured_json' = [captured_json EXCEPT ![c] = <<>>]
  /\ UNCHANGED << page, mayStart, pw, browser, delivered, rows, closing, ret,
                  reply, logged, trace, sinceSuccess,
                  arrival >>

\* await page.goto(HYPERDASH_URL, wait_until="domcontentloaded")
goto(c) ==
  /\ pc[c] = "goto"
  /\ \E ok \in BOOLEAN :
       /\ Call(ok, FALSE)
       /\ IF ok
          THEN /\ pc' = [pc EXCEPT ![c] = "settle"]
               /\ exc' = exc
          ELSE Throw(c, "navigate")
  /\ UNCHANGED << page, mayStart, pw, browser, ctx, delivered, captured_json,
                  rows, closing, ret, reply, logged, trace, sinceSuccess,
                  arrival >>

\* await page.wait_for_load_state("networkidle"): returns, or raises on timeout
wait_for_load_state(c) ==
  /\ pc[c] = "settle"
  /\ \E ok \in BOOLEAN :
       /\ Call(ok, FALSE)
       /\ IF ok
          THEN /\ pc' = [pc EXCEPT ![c] = "wait"]
               /\ exc' = exc
          ELSE Throw(c, "settle")
  /\ UNCHANGED << page, mayStart, pw, browser, ctx, delivered, captured_json,
                  rows, closing, ret, reply, logged, trace, sinceSuccess,
                  arrival >>

\* await page.wait_for_timeout(1000)
wait_for_timeout(c) ==
  /\ pc[c] = "wait"
  /\ \E ok \in BOOLEAN :
       /\ Call(ok, FALSE)
       /\ IF ok
          THEN /\ pc' = [pc EXCEPT ![c] = "next_data"]
               /\ exc' = exc
          ELSE Throw(c, "wait")
  /\ UNCHANGED << page, mayStart, pw, browser, ctx, delivered, captured_json,
                  rows, closing, ret, reply, logged, trace, sinceSuccess,
                  arrival >>

\* a callback that appends to one list shared by every session
on_response_shared(c) ==
  /\ pc[c] \in {"goto", "settle", "wait", "next_data", "json_scripts", "xhr",
                "wait_for_selector", "table", "text"}
  /\ PageAlive(c)
  /\ delivered[c] < Len(page[c].xhr)
  /\ LET resp == page[c].xhr[delivered[c] + 1]
     IN  captured_json' =
           IF resp.json_like /\ ~LoadsRaises(resp.raw)
           THEN [d \in Callers |-> Append(captured_json[d], resp.raw.doc)]
           ELSE captured_json
  /\ delivered' = [delivered EXCEPT ![c] = @ + 1]
  /\ UNCHANGED << page, mayStart, pc, pw, browser, ctx, rows, closing, ret, exc,
                  reply, logged, trace, sinceSuccess, faults,
                  arrival >>

\* on_response(resp), the page's "response" callback: a JSON-like response
\* whose body parses is appended to this session's captured_json
on_response(c) ==
  /\ pc[c] \in {"goto", "settle", "wait", "next_data", "json_scripts", "xhr",
                "wait_for_selector", "table", "text"}
  /\ PageAlive(c)
  /\ delivered[c] < Len(page[c].xhr)
  /\ LET resp == page[c].xhr[delivered[c] + 1]
     IN  captured_json' =
           IF resp.json_like /\ ~LoadsRaises(resp.raw)
           THEN [captured_json EXCEPT ![c] = Append(@, resp.raw.doc)]
           ELSE captured_json
  /\ delivered' = [delivered EXCEPT ![c] = @ + 1]
  /\ UNCHANGED << page, mayStart, pc, pw, browser, ctx, rows, closing, ret, exc,
                  reply, logged, trace, sinceSuccess, faults,
                  arrival >>

\* the block after a strategy's try/except
After(name) ==
  CASE name = "next_data" -> "json_scripts"
    [] name = "json_scripts" -> "xhr"
    [] name = "xhr" -> "wait_for_selector"

\* a try block of A or B ends: with rows it sorts, ranks and goes on to
\* close and return; with none, or on an exception, the next block runs
EndTry(c, name, res) ==
  /\ Ran(c, name, res)
  /\ IF ~res.raised /\ res.rows # <<>>
     THEN /\ rows' = [rows EXCEPT ![c] = Ranked(res.rows)]
          /\ closing' = [closing EXCEPT ![c] = name]
          /\ pc' = [pc EXCEPT ![c] = "ctx_close"]
     ELSE /\ rows' = rows
          /\ closing' = closing
          /\ pc' = [pc EXCEPT ![c] = After(name)]

\* A) script#__NEXT_DATA__ (a page operation may raise, and does on a
\* closed page)
strategy_next_data(c) ==
  /\ pc[c] = "next_data"
  /\ \E ok \in BOOLEAN :
       /\ ok => PageAlive(c)
       /\ Call(ok, ~PageAlive(c))
       /\ EndTry(c, "next_data", IF ok THEN NextDataRows(page[c]) ELSE Raised)
  /\ UNCHANGED << page, mayStart, pw, browser, ctx, delivered, captured_json,
                  ret, exc, reply, logged, sinceSuccess,
                  arrival >>

\* A) script[type='application/json']: failAt = k is an exception at the
\* k-th script (at scripts.count() when there is none), 0 is no exception
strategy_json_scripts(c) ==
  /\ pc[c] = "json_scripts"
  /\ \E failAt \in 0..Max(Min(Len(page[c].scripts), ScriptLimit), 1) :
       /\ failAt # 1 => PageAlive(c)
       /\ Call(failAt = 0, ~PageAlive(c))
       /\ LET seen == IF failAt = 0 THEN page[c]
                      ELSE [page[c] EXCEPT !.scripts = SubSeq(@, 1, failAt - 1)]
              res  == JsonScriptRows(seen)
          IN  EndTry(c, "json_scripts",
                     IF failAt # 0 /\ res.rows = <<>> THEN Raised ELSE res)
  /\ UNCHANGED << page, mayStart, pw, browser, ctx, delivered, captured_json,
                  ret, exc, reply, logged, sinceSuccess,
                  arrival >>

\* B) await page.wait_for_timeout(1500), then the captured responses
strategy_xhr(c) ==
  /\ pc[c] = "xhr"
  /\ \E ok \in BOOLEAN :
       /\ ok => PageAlive(c)
       /\ Call(ok, ~PageAlive(c))
       /\ EndTry(c, "xhr", IF ok THEN Found(XhrRows(captured_json[c])) ELSE Raised)
  /\ UNCHANGED << page, mayStart, pw, browser, ctx, delivered, captured_json,
                  ret, exc, reply, logged, sinceSuccess,
                  arrival >>

\* C) rows = []; await page.wait_for_selector(...), whose exception is passed
wait_for_selector(c) ==
  /\ pc[c] = "wait_for_selector"
  /\ rows' = [rows EXCEPT ![c] = <<>>]
  /\ pc' = [pc EXCEPT ![c] = "table"]
  /\ UNCHANGED << page, mayStart, pw, browser, ctx, delivered, captured_json,
                  closing, ret, exc, reply, logged, trace, sinceSuccess, faults,
                  arrival >>

\* C) the table rows: failAt = k is an exception at the k-th row (at
\* trs.count() when there is none), which keeps the rows appended before
\* it; D is skipped when there are rows
strategy_table(c) ==
  /\ pc[c] = "table"
  /\ \E failAt \in 0..Max(Len(TableTrs(page[c])), 1) :
       /\ failAt # 1 => PageAlive(c)
       /\ Call(failAt = 0, ~PageAlive(c))
       /\ LET trs   == TableTrs(page[c])
              found == TableRows(IF failAt = 0 THEN trs ELSE SubSeq(trs, 1, failAt - 1))
          IN  /\ Ran(c, "table", [raised |-> failAt # 0, rows |-> found])
              /\ rows' = [rows EXCEPT ![c] = found]
              /\ pc' = [pc EXCEPT ![c] = IF found = <<>> THEN "text" ELSE "ctx_close"]
  /\ closing' = [closing EXCEPT ![c] = "final"]
  /\ UNCHANGED << page, mayStart, pw, browser, ctx, delivered, captured_json,
                  ret, exc, reply, logged, sinceSuccess,
                  arrival >>

\* D) body_text = await page.evaluate(...), outside any try: its exception
\* leaves fetch_hyperdash_top
strategy_text(c) ==
  /\ pc[c] = "text"
  /\ \E ok \in BOOLEAN :
       /\ ok => PageAlive(c)
       /\ Call(ok, ~PageAlive(c))
       /\ IF ok
          THEN LET found == TextRows(BodyLines(page[c]))
               IN  /\ Ran(c, "text", Found(found))
                   /\ rows' = [rows EXCEPT ![c] = found]
                   /\ pc' = [pc EXCEPT ![c] = "ctx_close"]
                   /\ exc' = exc
          ELSE /\ Ran(c, "text", Raised)
               /\ rows' = rows
               /\ Throw(c, "evaluate")
  /\ UNCHANGED << page, mayStart, pw, browser, ctx, delivered, captured_json,
                  closing, ret, reply, logged, sinceSuccess,
                  arrival >>

\* an exception of a close: inside the try of A or B it is caught and the
\* next block runs; at the end of the function it leaves it
CloseRaised(c) ==
  IF closing[c] = "final"
  THEN Throw(c, "close")
  ELSE /\ pc' = [pc EXCEPT ![c] = After(closing[c])]
       /\ exc' = exc

\* await ctx.close(): closes the context, or raises having closed it or not
ctx_close(c) ==
  /\ pc[c] = "ctx_close"
  /\ \E ok \in BOOLEAN :
       /\ Call(ok, FALSE)
       /\ IF ok
          THEN /\ ctx' = [ctx EXCEPT ![c] = "closed"]
               /\ pc' = [pc EXCEPT ![c] = "browser_close"]
               /\ exc' = exc
          ELSE /\ \E now \in {ctx[c], "closed"} : ctx' = [ctx EXCEPT ![c] = now]
               /\ CloseRaised(c)
  /\ UNCHANGED << page, mayStart, pw, browser, delivered, captured_json, rows,
                  closing, ret, reply, logged, trace, sinceSuccess,
                  arrival >>

\* await browser.close(), and what follows it: return rows[:20] in A and B;
\* rows.sort, the ranks and return rows[:20] at the end of the function
browser_close(c) ==
  /\ pc[c] = "browser_close"
  /\ \E ok \in BOOLEAN :
       /\ Call(ok, FALSE)
       /\ IF ok
          THEN /\ browser' = [browser EXCEPT ![c] = "closed"]
               /\ ret' = [ret EXCEPT ![c] =
                            IF closing[c] = "final" THEN Ranked(rows[c]) ELSE rows[c]]
               /\ pc' = [pc EXCEPT ![c] = "exit"]
               /\ exc' = exc
          ELSE /\ \E now \in {browser[c], "closed"} :
                    browser' = [browser EXCEPT ![c] = now]
               /\ ret' = ret
               /\ CloseRaised(c)
  /\ UNCHANGED << page, mayStart, pw, ctx, delivered, captured_json, rows,
                  closing, reply, logged, trace, sinceSuccess,
                  arrival >>

\* an exit that leaves the browser as it is
ReleasedNot(state) == state

\* what leaving the "async with" does to a browser or context
Released(state) == IF state = "open" THEN "closed" ELSE state

\* the end of "async with async_playwright()", on return and on exception:
\* the driver stops, and with it the browser it launched
async_with_exit(c) ==
  /\ pc[c] = "exit"
  /\ pw' = [pw EXCEPT ![c] = "stopped"]
  /\ browser' = [browser EXCEPT ![c] = Released(@)]
  /\ ctx' = [ctx EXCEPT ![c] = Released(@)]
  /\ pc' = [pc EXCEPT ![c] = IF exc[c] = "" THEN "returned" ELSE "raised"]
  /\ sinceSuccess' = IF exc[c] = "" /\ ret[c] # <<>> THEN "fresh" ELSE sinceSuccess
  /\ UNCHANGED << page, mayStart, delivered, captured_json, rows, closing, ret,
                  exc, reply, logged, trace, faults,
                  arrival >>

\* ----------------------------------------------------- the handlers' ends

\* a handler without its "except Exception": the exception goes on to the
\* framework
CaughtNot(c) ==
  /\ pc' = [pc EXCEPT ![c] = "unhandled"]
  /\ UNCHANGED << logged, reply >>

\* what a handler does with an exception of fetch_hyperdash_top: cmd_top
\* logs it and replies with its text, periodic_job logs it
Caught(c) ==
  /\ logged' = [logged EXCEPT ![c] = exc[c]]
  /\ reply' = [reply EXCEPT ![c] =
                 IF c = "cmd_top" THEN [kind |-> "error", lines |-> <<exc[c]>>]
                 ELSE NoReply]
  /\ pc' = [pc EXCEPT ![c] = "done"]

\* cmd_top and periodic_job after the await: the formatted message is
\* sent, or the exception is caught
handler_end(c) ==
  /\ pc[c] \in {"returned", "raised"}
  /\ IF pc[c] = "returned"
     THEN /\ reply' = [reply EXCEPT ![c] = format_top_markdown(ret[c])]
          /\ logged' = logged
          /\ pc' = [pc EXCEPT ![c] = "done"]
     ELSE Caught(c)
  /\ UNCHANGED << page, mayStart, pw, browser, ctx, delivered, captured_json,
                  rows, closing, ret, exc, trace, sinceSuccess, faults,
                  arrival >>

\* the time since the last successful fetch passes any freshness window
ttl_expires ==
  /\ sinceSuccess = "fresh"
  /\ sinceSuccess' = "stale"
  /\ UNCHANGED << page, mayStart, pc, pw, browser, ctx, delivered, captured_json,
                  rows, closing, ret, exc, reply, logged, trace, faults,
                  arrival >>

\* ------------------------------------------------------- the pages explored

Txt2K == <<"$", "2", "K">>

Txt3 == <<"$", "3">>

TxtZero == <<"$", "0">>

TxtNoDigit == <<"$", "-">>

Addr1 == <<"0", "x", "a", "b", "c", "d", "e", "f", "1">>

Addr2 == <<"0", "x", "1", "2", "3", "4", "5", "6", "7">>

Num(n) == JNum(DecOfInt(n))

\* the objects a payload's array is made of
RowObjs ==
  { JDict(<<Item("usd", Num(3)), Item("address", JStr(Addr1))>>),
    JDict(<<Item("usd", Num(3)), Item("address", JStr(Addr1)),
            Item("symbol", JStr(<<"E", "T", "H">>))>>),
    JDict(<<Item("positionUsd", Num(0 - 4000)), Item("owner", JStr(<<"a", "l">>)),
            Item("side", JStr(<<"s", "h", "o", "r", "t">>))>>),
    JDict(<<Item("sizeUsd", JStr(Txt2K)), Item("name", JStr(<<"b", "o", "b">>))>>),
    JDict(<<Item("usd", Num(0)), Item("pvText", JStr(Txt3)),
            Item("address", JStr(Addr2))>>),
    JDict(<<Item("pvText", JStr(TxtNoDigit)), Item("name", JStr(<<"a", "l">>)),
            Item("pnl", Num(5))>>) }

\* the longest array explored exhaustively
MaxRows == 2

SeqsUpTo(S, n) == UNION {[1..k -> S] : k \in 0..n}

\* server-rendered state: {"props": {"traders": [...]}}
Wrap(objs) == JDict(<<Item("props", JDict(<<Item("traders", JList(objs))>>))>>)

Docs == {Wrap(objs) : objs \in SeqsUpTo(RowObjs, MaxRows)}

\* how far past the slice bound the long inputs go
MaxExtra == 3

\* amounts from -11 to 11 in a scrambled order, zero among them
LongAmount(i, seed) == ((i * seed) % 23) - 11

LongLens == {Limit + k : k \in 1..MaxExtra}

LongDoc(n, seed) ==
  JList([i \in 1..n |->
           JDict(<<Item("usd", Num(LongAmount(i, seed))),
                   Item("address", JStr(IF i % 2 = 0 THEN Addr1 ELSE Addr2))>>)])

LongDocs == {LongDoc(n, seed) : n \in LongLens, seed \in {5, 7}}

\* the text "$d" or "$dd" of a natural number below 100
DollarText(n) == <<"$">> \o NatText(n)

LongTable(n, seed) ==
  [i \in 1..n |-> << <<"B", "T", "C">>, DollarText(Abs(LongAmount(i, seed))),
                     IF i % 2 = 0 THEN Addr1 ELSE Addr2 >>]

EmptyPage ==
  [next |-> <<>>, scripts |-> <<>>, xhr |-> <<>>, thead |-> <<>>, tbody |-> <<>>,
   lines |-> <<>>]

\* one payload that yields rows, and one that yields only rejected ones
DocWith(n) == Wrap(<<JDict(<<Item("usd", Num(n)), Item("address", JStr(Addr1))>>)>>)

DocZero == Wrap(<<JDict(<<Item("usd", Num(0)), Item("address", JStr(Addr2))>>)>>)

\* a leaderboard array whose elements are {"name": ..., "pnl": ...}
NamePnlDoc ==
  JList(<<JDict(<<Item("name", JStr(<<"a", "l">>)), Item("pnl", Num(5))>>),
          JDict(<<Item("name", JStr(<<"b", "o", "b">>)), Item("pnl", Num(0 - 7))>>)>>)

\* amounts of every tier of format_amount, whole and fractional: 1.5, 2.5,
\* 7.25, 999.5, 1234.56, 999999 and 999e9
Amounts ==
  { Dec(15, 0 - 1), Dec(25, 0 - 1), Dec(725, 0 - 2), Dec(9995, 0 - 1),
    Dec(123456, 0 - 2), Dec(999999, 0), Dec(999, 9) }

\* payloads of one row with such an amount, as a number or as the text
\* "139,860,000"
AmountDocs ==
  {Wrap(<<JDict(<<Item("usd", JNum(v))>>)>>) : v \in Amounts}
    \cup {Wrap(<<JDict(<<Item("mainPosition",
                           JStr(<<"1", "3", "9", ",", "8", "6", "0", ",", "0", "0", "0">>))>>)>>)}

Raws == {RawBroken, RawText, RawJson(JNull), RawJson(Num(7)), RawJson(NamePnlDoc)}
          \cup {RawJson(d) : d \in Docs \cup LongDocs \cup AmountDocs}

FewRaws == {RawBroken, RawText, RawJson(DocZero), RawJson(DocWith(2))}

NextPages == {[EmptyPage EXCEPT !.next = <<raw>>] : raw \in Raws}

\* more scripts than the loop reads: only the last one has rows
ManyScripts(n) == [i \in 1..n |-> IF i = n THEN RawJson(DocWith(2)) ELSE RawText]

ScriptPages ==
  {[EmptyPage EXCEPT !.scripts = ss] : ss \in SeqsUpTo(FewRaws, MaxRows)}
    \cup {[EmptyPage EXCEPT !.scripts = <<RawJson(d)>>] : d \in LongDocs}
    \cup {[EmptyPage EXCEPT !.scripts = ManyScripts(n), !.lines = <<TxtZero>>] :
            n \in {ScriptLimit, ScriptLimit + 1}}

Responses ==
  { Response(FALSE, RawJson(DocWith(9))), Response(TRUE, RawBroken),
    Response(TRUE, RawJson(JNull)), Response(TRUE, RawJson(DocZero)),
    Response(TRUE, RawJson(DocWith(0 - 5))) }

XhrPages ==
  {[EmptyPage EXCEPT !.xhr = rs] : rs \in SeqsUpTo(Responses, MaxRows)}
    \cup {[EmptyPage EXCEPT !.xhr = <<Response(TRUE, RawJson(d))>>] : d \in LongDocs}

\* the <td> texts of table rows; a header row has none
Trs ==
  { <<>>,
    << <<"B", "T", "C", "-", "P", "E", "R", "P">>, <<" ", "L", "o", "n", "g">>,
       <<"$", " ", "2", ".", "5", "M">>, Addr1 >>,
    << <<"e", "t", "h">>, Txt2K, <<"S", "H", "O", "R", "T">> >>,
    << <<"E", "T", "H">>, TxtZero, Addr2 >>,
    << <<"S", "O", "L">>, <<"n", "/", "a">> >> }

TablePages ==
  {[EmptyPage EXCEPT !.tbody = trs] : trs \in SeqsUpTo(Trs, MaxRows)}
    \cup {[EmptyPage EXCEPT !.thead = << <<>>, t >>] : t \in Trs}
    \cup {[EmptyPage EXCEPT !.tbody = LongTable(n, seed)] :
            n \in LongLens, seed \in {5, 7}}

Lines ==
  { <<"T", "o", "p", " ", "t", "r", "a", "d", "e", "r", "s">>,
    <<" ", "$", "2", "2", "0", ".", "0", "M", " ", "S", "h", "o", "r", "t", " ",
      "B", "T", "C", " ">> \o Addr1,
    <<"L", "I", "N", "K", " ", "$", "5">>,
    <<"$", "0", " ", "l", "o", "n", "g">>,
    <<"f", "e", "e", " ", "$", "-">> }

TextPages ==
  {[EmptyPage EXCEPT !.lines = ls] : ls \in SeqsUpTo(Lines, MaxRows)}

\* every strategy's source, each with rejected data only or with rows of
\* its own (of amounts 1..5, so that the rows tell their strategy)
MixedPages ==
  { [next    |-> n, scripts |-> s, xhr |-> x, thead |-> <<>>, tbody |-> t,
     lines   |-> l] :
      n \in {<<RawJson(DocZero)>>, <<RawJson(DocWith(1))>>},
      s \in {<<RawText, RawJson(DocZero)>>, <<RawJson(DocZero), RawJson(DocWith(2))>>},
      x \in {<<Response(TRUE, RawJson(DocZero))>>,
             <<Response(TRUE, RawJson(DocWith(3)))>>},
      t \in {<< <<<<"E", "T", "H">>, TxtZero>> >>,
             << <<<<"E", "T", "H">>, <<"$", "4">>>> >>},
      l \in {<<TxtNoDigit>>, <<<<"$", "5">>>>} }

Pages == NextPages \cup ScriptPages \cup XhrPages \cup TablePages \cup TextPages
           \cup MixedPages

\* the pages of the behaviours in which both callers run
SmallPages ==
  { EmptyPage,
    [EmptyPage EXCEPT !.next = <<RawJson(DocWith(1))>>],
    [EmptyPage EXCEPT !.xhr = <<Response(TRUE, RawJson(DocWith(3)))>>,
                      !.lines = <<Txt3>>] }

\* ------------------------------------------------------------------- Init

InitRest ==
  /\ pc = [c \in Callers |-> "idle"]
  /\ pw = [c \in Callers |-> "none"]
  /\ browser = [c \in Callers |-> "none"]
  /\ ctx = [c \in Callers |-> "none"]
  /\ delivered = [c \in Callers |-> 0]
  /\ captured_json = [c \in Callers |-> <<>>]
  /\ rows = [c \in Callers |-> <<>>]
  /\ closing = [c \in Callers |-> "none"]
  /\ ret = [c \in Callers |-> <<>>]
  /\ exc = [c \in Callers |-> ""]
  /\ reply = [c \in Callers |-> NoReply]
  /\ logged = [c \in Callers |-> ""]
  /\ trace = [c \in Callers |-> <<>>]
  /\ sinceSuccess = "never"
  /\ faults = 0
  /\ arrival = [c \in Callers |-> "none"]

\* one request: of cmd_top on any of the pages, or of periodic_job on one
\* of the small ones
Init ==
  /\ \E c \in Callers :
       /\ mayStart = {c}
       /\ \E p \in IF c = "cmd_top" THEN Pages ELSE SmallPages :
            page = [d \in Callers |-> IF d = c THEN p ELSE EmptyPage]
  /\ InitRest

\* a request of each caller, in any interleaving
InitConc ==
  /\ mayStart = Callers
  /\ page \in [Callers -> SmallPages]
  /\ InitRest

Next ==
  \/ \E c \in Callers :
       \/ cmd_top(c)
       \/ periodic_job(c)
       \/ ensure_chromium_installed(c)
       \/ launch(c)
       \/ new_context(c)
       \/ goto(c)
       \/ wait_for_load_state(c)
       \/ wait_for_timeout(c)
       \/ on_response(c)
       \/ strategy_next_data(c)
       \/ strategy_json_scripts(c)
       \/ strategy_xhr(c)
       \/ wait_for_selector(c)
       \/ strategy_table(c)
       \/ strategy_text(c)
       \/ ctx_close(c)
       \/ browser_close(c)
       \/ async_with_exit(c)
       \/ handler_end(c)
  \/ ttl_expires

\* ----------------------------------------------------------------- claims

\* the places of a caller whose call of fetch_hyperdash_top is over
Completed == {"returned", "raised", "done"}

\* the places of a handler that is not over yet
InHandler ==
  {"idle", "install", "launch", "new_context", "goto", "settle", "wait",
   "next_data", "json_scripts", "xhr", "wait_for_selector", "table", "text",
   "ctx_close", "browser_close", "exit", "returned", "raised"}

\* the entry of a strategy in a caller's trace, when it ran
Entries(c, name) == {i \in DOMAIN trace[c] : trace[c][i].s = name}

\* the rows of the strategy whose return is under way or done
WinnerRows(c) ==
  LET name == IF closing[c] # "final" THEN closing[c]
              ELSE IF \E i \in Entries(c, "table") : trace[c][i].rows # <<>>
              THEN "table" ELSE "text"
  IN  IF Entries(c, name) = {} THEN <<>>
      ELSE trace[c][CHOOSE i \in Entries(c, name) : TRUE].rows

\* a row without its rank
Unranked(r) == [r EXCEPT !.rank = 0]

\* what the caller's user gets: a ranked list, the no-data notice, or a failure
Outcome(c) ==
  IF logged[c] # "" THEN "Failed"
  ELSE IF reply[c].kind = "top" THEN "Success"
  ELSE IF reply[c].kind = "nodata" THEN "Empty"
  ELSE "none"

\* C1: the strategies run in the order next_data, json_scripts, xhr, table,
\* text; once a strategy has returned a row no later strategy runs, and the
\* list returned is made of the rows of that strategy alone.
C1_FirstSuccessWins ==
  \A c \in Callers :
    /\ \A i \in DOMAIN trace[c] : trace[c][i].s = Order[i]
    /\ \A i, j \in DOMAIN trace[c] : i < j => trace[c][i].rows = <<>>
    /\ \A i \in DOMAIN trace[c] :
         (trace[c][i].rows # <<>> /\ pc[c] \in {"returned", "done"} /\ exc[c] = "")
           => ret[c] = Ranked(trace[c][i].rows)

\* C2: at most one browser session is open at any time.
C2_AtMostOneSession ==
  Cardinality({c \in Callers : browser[c] = "open"}) <= 1

\* C3: a request that arrives while the last successful fetch is still
\* fresh launches no browser.
C3_NoLaunchWhenFresh ==
  \A c \in Callers : arrival[c] = "fresh" => browser[c] = "none"

\* C4: when all the strategies have run and none has a row (one that
\* failed has none), the caller ends with the no-data notice and without
\* an exception.
C4_EmptyNotFailed ==
  \A c \in Callers :
    ( /\ pc[c] = "done"
      /\ {trace[c][i].s : i \in DOMAIN trace[c]} = Range(Order)
      /\ \A i \in DOMAIN trace[c] : trace[c][i].rows = <<>> )
      => Outcome(c) = "Empty"

\* C5: when the call of fetch_hyperdash_top is over, by return or by
\* exception, neither the browser it launched nor its context is open.
C5_BrowserReleased ==
  \A c \in Callers :
    pc[c] \in Completed => (browser[c] # "open" /\ ctx[c] # "open")

\* a browser was launched, the free-text strategy raised, and the call ended
\* by that exception with the browser closed
C5_Witness ==
  \E c \in Callers :
    pc[c] = "raised" /\ exc[c] = "evaluate" /\ browser[c] = "closed"

\* C6: no exception raised inside a strategy leaves fetch_hyperdash_top.
C6_StrategyFailuresCaught ==
  \A c \in Callers :
    \A i \in DOMAIN trace[c] : trace[c][i].raised => exc[c] # "evaluate"

C8_SortedAndRanked ==
  \A c \in Callers :
    /\ \A i, j \in DOMAIN ret[c] :
         i < j => ~DecLess(SortKey(ret[c][i]), SortKey(ret[c][j]))
    /\ \A i \in DOMAIN ret[c] : ret[c][i].rank = i

\* a list of several rows was returned whose largest row was not the first
\* one found, and a negative amount is in it
C8_Witness ==
  \E c \in Callers :
    /\ pc[c] = "returned" /\ Len(ret[c]) >= 2
    /\ Unranked(ret[c][1]) # WinnerRows(c)[1]
    /\ \E i \in DOMAIN ret[c] : ret[c][i].size_usd_num.m < 0

\* how often a row occurs in a list, ranks aside
Count(seq, r) == Cardinality({i \in DOMAIN seq : Unranked(seq[i]) = Unranked(r)})

\* C9: the list returned has min(20, k) rows of the k the winning strategy
\* found, each of them one of those rows, and no row left out has a larger
\* abs(size_usd_num) than a row returned.
C9_TopLimit ==
  \A c \in Callers :
    (pc[c] \in {"returned", "done"} /\ exc[c] = "") =>
      LET cands == WinnerRows(c)
      IN  /\ Len(ret[c]) <= Limit
          /\ Len(ret[c]) = Min(Limit, Len(cands))
          /\ \A i \in DOMAIN ret[c] : Count(ret[c], ret[c][i]) <= Count(cands, ret[c][i])
          /\ \A i \in DOMAIN cands :
               Count(ret[c], cands[i]) < Count(cands, cands[i])
                 => \A j \in DOMAIN ret[c] :
                      ~DecLess(SortKey(ret[c][j]), SortKey(cands[i]))

\* more rows than the limit were found and the limit's number was returned
C9_Witness ==
  \E c \in Callers :
    pc[c] = "returned" /\ Len(WinnerRows(c)) > Limit /\ Len(ret[c]) = Limit

\* the dicts of a page's __NEXT_DATA__ that carry an amount of exactly 0
ZeroDicts(p) ==
  IF p.next = <<>> \/ LoadsRaises(p.next[1]) THEN {}
  ELSE LET objs == walk_json(p.next[1].doc)
       IN  {i \in DOMAIN objs : SizeOf(objs[i]).found /\ SizeOf(objs[i]).val.m = 0}

\* C10: no row found by a strategy and no row returned has the amount 0
\* (so a strategy wins by a nonzero row only), and without an
\* infrastructure fault no caller ends with a failure.
C10_ZeroRejected ==
  \A c \in Callers :
    /\ \A i \in DOMAIN ret[c] : ret[c][i].size_usd_num.m # 0
    /\ \A i \in DOMAIN trace[c] :
         \A k \in DOMAIN trace[c][i].rows : trace[c][i].rows[k].size_usd_num.m # 0
    /\ faults = 0 => (exc[c] = "" /\ Outcome(c) # "Failed")

\* a payload with a zero-amount dict and another row gave a list, without it
C10_Witness ==
  \E c \in Callers :
    /\ pc[c] = "done" /\ ZeroDicts(page[c]) # {} /\ closing[c] = "next_data"
    /\ Outcome(c) = "Success"
    /\ Len(ret[c]) < Cardinality({i \in DOMAIN walk_json(page[c].next[1].doc) :
                                    SizeOf(walk_json(page[c].next[1].doc)[i]).found})

\* the rows of a list whose abs(size_usd_num) is that of r, ranks aside, in
\* the order of the list
Ties(seq, r) ==
  LET same(x) == ~DecLess(SortKey(x), SortKey(r)) /\ ~DecLess(SortKey(r), SortKey(x))
      kept == SelectSeq(seq, same)
  IN  [i \in DOMAIN kept |-> Unranked(kept[i])]

\* C11: the rows returned that share one abs(size_usd_num) are the first of
\* the winning strategy's rows with that amount, in the order it found them.
C11_StableTies ==
  \A c \in Callers :
    (pc[c] \in {"returned", "done"} /\ exc[c] = "") =>
      \A i \in DOMAIN ret[c] :
        LET got   == Ties(ret[c], ret[c][i])
            found == Ties(WinnerRows(c), ret[c][i])
        IN  Len(got) <= Len(found) /\ got = SubSeq(found, 1, Len(got))

\* a list was returned in which two different rows share one amount
C11_Witness ==
  \E c \in Callers :
    /\ pc[c] = "returned"
    /\ \E i, j \in DOMAIN ret[c] :
         /\ i < j
         /\ Ties(ret[c], ret[c][i]) = Ties(ret[c], ret[c][j])
         /\ Unranked(ret[c][i]) # Unranked(ret[c][j])

\* C12: a timeout of the settle wait ends no fetch: it is never the
\* exception that leaves fetch_hyperdash_top, and a handler that is over
\* after one has run the strategies and does not end with a failure.
C12_SettleTimeoutTolerated ==
  \A c \in Callers :
    /\ exc[c] # "settle"
    /\ (pc[c] = "done" /\ logged[c] = "settle") => trace[c] # <<>>

\* a dict with a name, a nonzero numeric pnl and no address
NamePnl(obj) ==
  /\ HasKey(obj, "name") /\ Get(obj, "name").t = "str"
  /\ HasKey(obj, "pnl") /\ Get(obj, "pnl").t = "num" /\ Get(obj, "pnl").v.m # 0
  /\ ~HasKey(obj, "address")

\* C13: when __NEXT_DATA__ has been extracted, every dict of it with a name
\* and a nonzero pnl but no address has a row of its own, whose owner is
\* the name and whose amount is the pnl.
C13_NamePnlYieldsCandidates ==
  \A c \in Callers :
    \A i \in DOMAIN trace[c] :
      (trace[c][i].s = "next_data" /\ ~trace[c][i].raised /\ page[c].next # <<>>)
        => LET objs == walk_json(page[c].next[1].doc)
           IN  \A k \in DOMAIN objs :
                 NamePnl(objs[k]) =>
                   \E n \in DOMAIN trace[c][i].rows :
                     /\ trace[c][i].rows[n].owner = Get(objs[k], "name").s
                     /\ trace[c][i].rows[n].size_usd_num = Get(objs[k], "pnl").v

\* how many rows of a list go before its i-th row in the ranking: those of
\* a larger abs(size_usd_num), and those of the same found earlier
Ahead(seq, i) ==
  Cardinality({j \in DOMAIN seq :
                 \/ DecLess(SortKey(seq[i]), SortKey(seq[j]))
                 \/ (j < i /\ ~DecLess(SortKey(seq[j]), SortKey(seq[i])))})

\* C14: the list returned has min(k, 20) rows of the k the winning strategy
\* found, and a row whose address another of those rows carries too is
\* returned, at the rank of its own place in the ranking, whenever fewer than
\* 20 rows are ahead of it: rows of one address are never merged.
C14_NoDedupe ==
  \A c \in Callers :
    (pc[c] \in {"returned", "done"} /\ exc[c] = "") =>
      LET cands == WinnerRows(c)
      IN  /\ Len(ret[c]) = Min(Limit, Len(cands))
          /\ \A i \in DOMAIN cands :
               (\E j \in DOMAIN cands : j # i /\ cands[j].address = cands[i].address)
                 => LET a == Ahead(cands, i)
                    IN  a < Limit =>
                          /\ a + 1 \in DOMAIN ret[c]
                          /\ ret[c][a + 1] = [cands[i] EXCEPT !.rank = a + 1]

\* a list was returned with two rows of one address
C14_Witness ==
  \E c \in Callers :
    /\ pc[c] = "returned"
    /\ \E i, j \in DOMAIN ret[c] :
         i # j /\ ret[c][i].address # <<>> /\ ret[c][i].address = ret[c][j].address

\* |a - b| for amounts a, b >= 0
DecDiff(a, b) ==
  LET e0 == Min(a.e, b.e)
  IN  Dec(Abs(a.m * Pow10(a.e - e0) - b.m * Pow10(b.e - e0)), e0)

\* |p - v| <= v / 100
WithinOnePercent(p, v) == ~DecLess(v, DecMul(DecDiff(p, v), DecOfInt(100)))

\* 1 <= v <= 999e9
InRoundTripRange(v) ==
  v.m > 0 /\ ~DecLess(v, DecOfInt(1)) /\ ~DecLess(Dec(999, 9), v)

\* C15: for every amount from 1 to 999e9 that a strategy has found,
\* usd_to_float(format_amount(v)) is within 1% of v.
C15_RoundTripWithinOnePercent ==
  \A c \in Callers :
    \A i \in DOMAIN trace[c] :
      \A k \in DOMAIN trace[c][i].rows :
        LET v == trace[c][i].rows[k].size_usd_num
        IN  InRoundTripRange(v) => WithinOnePercent(usd_to_float(format_amount(v)), v)

\* C16: once a strategy has found a row, it is the last strategy to run,
\* and the call of fetch_hyperdash_top ends by returning that strategy's
\* rows, ranked, and not by an exception, whatever the closes do.
C16_TeardownErrorHarmless ==
  \A c \in Callers :
    \A i \in DOMAIN trace[c] :
      trace[c][i].rows # <<>> =>
        /\ i = Len(trace[c])
        /\ exc[c] = ""
        /\ pc[c] \in {"returned", "done"} => ret[c] = Ranked(trace[c][i].rows)

\* the data of the responses among rs that are JSON-like and parse
RECURSIVE CapturedOf(_)
CapturedOf(rs) ==
  IF rs = <<>> THEN <<>>
  ELSE (IF Head(rs).json_like /\ ~LoadsRaises(Head(rs).raw)
        THEN <<Head(rs).raw.doc>> ELSE <<>>) \o CapturedOf(Tail(rs))

\* what fetch_hyperdash_top returns for page p when it runs alone, without
\* a fault, and the first n responses have come in before block B
Alone(p, n) ==
  LET a == NextDataRows(p).rows
      s == JsonScriptRows(p).rows
      x == XhrRows(CapturedOf(SubSeq(p.xhr, 1, n)))
      t == TableRows(TableTrs(p))
      d == TextRows(BodyLines(p))
  IN  Ranked(IF a # <<>> THEN a ELSE IF s # <<>> THEN s ELSE IF x # <<>> THEN x
             ELSE IF t # <<>> THEN t ELSE d)

\* C17: whatever the other caller does, a caller's captured_json holds the
\* data of the responses of its own page alone, and without a fault the
\* list it returns is the one it returns when it runs alone on that page.
C17_NoSharedState ==
  \A c \in Callers :
    /\ captured_json[c] = CapturedOf(SubSeq(page[c].xhr, 1, delivered[c]))
    /\ (faults = 0 /\ pc[c] \in {"returned", "done"}) =>
         \E n \in 0..delivered[c] : ret[c] = Alone(page[c], n)

\* a caller has returned the rows of its captured responses while the
\* other, whose page has no response, has its browser open and has
\* captured nothing
C17_Witness ==
  \E c, d \in Callers :
    /\ c # d /\ pc[c] = "returned" /\ closing[c] = "xhr" /\ ret[c] # <<>>
    /\ browser[d] = "open" /\ page[d].xhr = <<>> /\ captured_json[d] = <<>>

Spec == Init /\ [][Next]_vars

SpecConc == InitConc /\ [][Next]_vars

====
